---- MODULE Spec2Model ----
(***************************************************************************)
(* Model of the helper functions of notebooks/wem_hackathon_TextXD18.ipynb *)
(* dict_cohere, dict_distinct and display_closestwords, together with the  *)
(* part of the gensim KeyedVectors / numpy behaviour they rely on.         *)
(*                                                                         *)
(* Numbers are exact rationals (records with numerator n and denominator   *)
(* d in lowest terms) extended with the numpy values inf and nan; the flag *)
(* np tells a numpy scalar from a plain Python number, which decides what  *)
(* a division by zero does.                                                *)
(***************************************************************************)
EXTENDS Integers, Sequences, FiniteSets, TLC

\* ---------------------------------------------------------------- bounds
MaxLen == 2                 \* longest term list of the notebook
MaxPlot == 2                \* largest plotnumber asked for

\* ------------------------------------------------------- embedding space
Vocab == {"inquiry", "expel"}                     \* words of model.vocab
Terms == Vocab \cup {"prbl"}                      \* "prbl" is in no vocabulary
VecSpace == {<<1, 0>>, <<-1, 0>>, <<3, 4>>}       \* vectors a word may have

\* index order of the rows of a model's vectors
VocabSeq == <<"expel", "inquiry", "prbl">>

\* the term lists an analyst may define
Dicts == UNION {[1..n -> Terms] : n \in 0..MaxLen}

\* the names of the notebook's two term lists
ListNames == {"inquiry", "discipline"}

VARIABLES
    vectors,          \* the KeyedVectors object "model": word -> vector
    inquiry,          \* the notebook's list "inquiry"
    discipline,       \* the notebook's list "discipline"
    pc,               \* "idle", "cohere_for", "distinct_for" or "plot_for"
    thisdict,         \* dict_cohere's argument: which list object it is
    dict1, dict2,     \* dict_distinct's arguments: which list objects
    i,                \* position of the for loop in the list it iterates
    word_avg_dist,    \* local of both scorers
    word_avg_dists,   \* local of both scorers
    dict_avg_sim,     \* local of dict_cohere
    dicts_avg_dist,   \* local of dict_distinct
    outcome,          \* how the last call ended
    seen,             \* one earlier call and its outcome, kept for comparison
    other,            \* a second KeyedVectors object of the session
    wem_model,        \* display_closestwords' argument: which model object
    word,             \* display_closestwords' argument
    close_words,      \* local of display_closestwords
    arr,              \* local of display_closestwords: the rows to plot
    word_labels       \* local of display_closestwords

scorerVars == <<inquiry, discipline, thisdict, dict1, dict2, word_avg_dist,
                word_avg_dists, dict_avg_sim, dicts_avg_dist, seen>>

plotVars == <<other, wem_model, word, close_words, arr, word_labels>>

vars == <<vectors, pc, i, outcome, scorerVars, plotVars>>

\* ------------------------------------------------------------ arithmetic
Abs(x) == IF x < 0 THEN -x ELSE x

RECURSIVE Gcd(_, _)
Gcd(a, b) == IF b = 0 THEN a ELSE Gcd(b, a % b)

\* the finite number n/d, d # 0, in lowest terms
Fin(n, d, isnp) ==
    LET g == Gcd(Abs(n), Abs(d))
        s == IF d < 0 THEN -1 ELSE 1
    IN  [k |-> "fin", n |-> (s * n) \div g, d |-> (s * d) \div g, np |-> isnp]

Inf == [k |-> "inf", n |-> 1, d |-> 0, np |-> TRUE]
NaN == [k |-> "nan", n |-> 0, d |-> 0, np |-> TRUE]
ZeroDivisionError == [k |-> "ZeroDivisionError", n |-> 0, d |-> 0, np |-> FALSE]

PyInt(n) == Fin(n, 1, FALSE)

\* x + y
Add(x, y) ==
    IF x.k = "nan" \/ y.k = "nan" THEN NaN
    ELSE IF x.k = "inf" \/ y.k = "inf" THEN Inf
    ELSE Fin(x.n * y.d + y.n * x.d, x.d * y.d, x.np \/ y.np)

\* x / len(...): a Python number divided by zero raises, a numpy scalar
\* divided by zero gives inf or nan (with a RuntimeWarning only)
Div(x, len) ==
    IF x.k # "fin" THEN x
    ELSE IF len = 0
         THEN IF ~x.np THEN ZeroDivisionError
              ELSE IF x.n = 0 THEN NaN ELSE Inf
         ELSE Fin(x.n, x.d * len, x.np)

\* 1 - x
OneMinus(x) ==
    IF x.k # "fin" THEN x
    ELSE Fin(x.d - x.n, x.d, x.np)

\* ------------------------------------------------------ KeyedVectors
Dot(v, w) == v[1] * w[1] + v[2] * w[2]

Norm(v) == CHOOSE r \in 0..5 : r * r = Dot(v, v)

\* cosine_similarities, for one pair of vectors
CosineSimilarity(v, w) == Fin(Dot(v, w), Norm(v) * Norm(w), TRUE)

\* the words of a model in the order of its rows
AllWords(wem) == SelectSeq(VocabSeq, LAMBDA w : w \in DOMAIN wem)

\* mutant: words of other_words that the model does not know are skipped
distancesSkipUnknown(wem, w, other_words) ==
    IF w \notin DOMAIN wem THEN [err |-> "KeyError", vals |-> <<>>]
    ELSE LET known == SelectSeq(other_words, LAMBDA u : u \in DOMAIN wem)
             others == IF known = <<>> THEN AllWords(wem) ELSE known
         IN  [err |-> "none",
              vals |-> [j \in 1..Len(others) |->
                 OneMinus(CosineSimilarity(wem[w], wem[others[j]]))]]

\* wem_model.distances(word, other_words=...): the array of distances, or
\* a KeyError; an empty other_words means "all words of the model"
distances(wem, w, other_words) ==
    IF w \notin DOMAIN wem THEN [err |-> "KeyError", vals |-> <<>>]
    ELSE LET others == IF other_words = <<>> THEN AllWords(wem) ELSE other_words
         IN  IF \E j \in 1..Len(others) : others[j] \notin DOMAIN wem
             THEN [err |-> "KeyError", vals |-> <<>>]
             ELSE [err |-> "none",
                   vals |-> [j \in 1..Len(others) |->
                      OneMinus(CosineSimilarity(wem[w], wem[others[j]]))]]

\* ndarray.sum()
RECURSIVE ArraySum(_)
ArraySum(a) ==
    IF a = <<>> THEN Fin(0, 1, TRUE)
    ELSE Add(a[1], ArraySum(Tail(a)))

\* ------------------------------------------------------------- outcomes
NoOutcome == [status |-> "none", value |-> PyInt(0)]
Returned(v) == [status |-> "returned", value |-> v]
Raised(e) == [status |-> e, value |-> PyInt(0)]

\* a KeyedVectors object without words
NoWords == [w \in {} |-> <<0, 0>>]

\* the KeyedVectors objects a session may load and plot from
KeyedVectors == UNION {[S -> {<<1, 0>>, <<3, 4>>}] : S \in SUBSET Terms}

NoCall == [fn |-> "none", a1 |-> <<>>, a2 |-> <<>>, outcome |-> NoOutcome,
           old |-> FALSE]

\* the list object a parameter is bound to
Obj(ref) == IF ref = "inquiry" THEN inquiry ELSE discipline

Init ==
    /\ vectors \in [Vocab -> VecSpace]
    /\ inquiry \in Dicts
    /\ discipline \in Dicts
    /\ pc = "idle"
    /\ thisdict = "none"
    /\ dict1 = "none"
    /\ dict2 = "none"
    /\ i = 1
    /\ word_avg_dist = PyInt(0)
    /\ word_avg_dists = PyInt(0)
    /\ dict_avg_sim = PyInt(0)
    /\ dicts_avg_dist = PyInt(0)
    /\ outcome = NoOutcome
    /\ seen = NoCall
    /\ other = NoWords
    /\ wem_model = "none"
    /\ word = "none"
    /\ close_words = <<>>
    /\ arr = <<>>
    /\ word_labels = <<>>

\* the record of the call that is ending with outcome o: the function, the
\* contents of its argument lists and the outcome
ThisCall(o) ==
    IF pc = "cohere_for"
    THEN [fn |-> "dict_cohere", a1 |-> Obj(thisdict), a2 |-> <<>>,
          outcome |-> o, old |-> FALSE]
    ELSE [fn |-> "dict_distinct", a1 |-> Obj(dict1), a2 |-> Obj(dict2),
          outcome |-> o, old |-> FALSE]

\* a call ends with outcome o; the observer either records this call or keeps
\* the call it recorded earlier (marked old: a later call has ended since)
Ends(o) ==
    /\ outcome' = o
    /\ pc' = "idle"
    /\ \/ seen' = ThisCall(o)
       \/ /\ seen # NoCall
          /\ seen' = [seen EXCEPT !.old = TRUE]

\* ---------------------------------------------------------- dict_cohere
\* mutant: the per-word total is not averaged
CohereWordAvgNoDiv(a, len) == ArraySum(a)

\* line 214: the mean distance of word to the words of thisdict
CohereWordAvg(a, len) == Div(ArraySum(a), len)

\* mutant: the mean over the other words only, n - 1 of them
CohereScoreNMinus1(sum, len) ==
    LET q == Div(sum, len - 1)
    IN  IF q.k = "ZeroDivisionError" THEN q ELSE OneMinus(q)

\* mutant: the mean distance is returned, not 1 minus it
CohereScoreAsDistance(sum, len) == Div(sum, len)

\* line 216: the score from the accumulated per-word means
CohereScore(sum, len) ==
    LET q == Div(sum, len)
    IN  IF q.k = "ZeroDivisionError" THEN q ELSE OneMinus(q)

\* mutant: the accumulator word_avg_dists is not initialised by the call
CallDictCohereNoReset(ref) ==
    /\ pc = "idle"
    /\ thisdict' = ref
    /\ dict1' = "none"
    /\ dict2' = "none"
    /\ i' = 1
    /\ word_avg_dist' = PyInt(0)
    /\ dict_avg_sim' = PyInt(0)
    /\ dicts_avg_dist' = PyInt(0)
    /\ outcome' = NoOutcome
    /\ pc' = "cohere_for"
    /\ UNCHANGED <<vectors, inquiry, discipline, seen, plotVars, word_avg_dists>>

\* the call dict_cohere(<ref>, model) and the initialisation of the locals
CallDictCohere(ref) ==
    /\ pc = "idle"
    /\ thisdict' = ref
    /\ dict1' = "none"
    /\ dict2' = "none"
    /\ i' = 1
    /\ word_avg_dist' = PyInt(0)
    /\ word_avg_dists' = PyInt(0)
    /\ dict_avg_sim' = PyInt(0)
    /\ dicts_avg_dist' = PyInt(0)
    /\ outcome' = NoOutcome
    /\ pc' = "cohere_for"
    /\ UNCHANGED <<vectors, inquiry, discipline, seen, plotVars>>

\* mutant: each pass deletes the term it has just averaged from thisdict
CohereLoopDeleting ==
    /\ pc = "cohere_for"
    /\ i <= Len(Obj(thisdict))
    /\ LET term == Obj(thisdict)[i]
           r == distances(vectors, term, Obj(thisdict))
           avg == CohereWordAvg(r.vals, Len(Obj(thisdict)))
           rest == [j \in 1..(Len(Obj(thisdict)) - 1) |->
                      IF j < i THEN Obj(thisdict)[j] ELSE Obj(thisdict)[j + 1]]
       IN  IF r.err # "none"
           THEN /\ Ends(Raised(r.err))
                /\ UNCHANGED <<i, word_avg_dist, word_avg_dists, inquiry,
                               discipline>>
           ELSE /\ word_avg_dist' = avg
                /\ word_avg_dists' = Add(word_avg_dists, avg)
                /\ i' = i + 1
                /\ inquiry' = IF thisdict = "inquiry" THEN rest ELSE inquiry
                /\ discipline' = IF thisdict = "inquiry" THEN discipline ELSE rest
                /\ UNCHANGED <<pc, outcome, seen>>
    /\ UNCHANGED <<vectors, thisdict, dict1, dict2, dict_avg_sim,
                   dicts_avg_dist, plotVars>>

\* one pass of "for word in thisdict"
CohereLoop ==
    /\ pc = "cohere_for"
    /\ i <= Len(Obj(thisdict))
    /\ LET term == Obj(thisdict)[i]
           r == distances(vectors, term, Obj(thisdict))
           avg == CohereWordAvg(r.vals, Len(Obj(thisdict)))
       IN  IF r.err # "none"
           THEN /\ Ends(Raised(r.err))
                /\ UNCHANGED <<i, word_avg_dist, word_avg_dists>>
           ELSE /\ word_avg_dist' = avg
                /\ word_avg_dists' = Add(word_avg_dists, avg)
                /\ i' = i + 1
                /\ UNCHANGED <<pc, outcome, seen>>
    /\ UNCHANGED <<vectors, inquiry, discipline, thisdict, dict1, dict2,
                   dict_avg_sim, dicts_avg_dist, plotVars>>

\* the statements after the loop
CohereReturn ==
    /\ pc = "cohere_for"
    /\ i > Len(Obj(thisdict))
    /\ LET s == CohereScore(word_avg_dists, Len(Obj(thisdict)))
       IN  IF s.k = "ZeroDivisionError"
           THEN /\ Ends(Raised("ZeroDivisionError"))
                /\ UNCHANGED dict_avg_sim
           ELSE /\ dict_avg_sim' = s
                /\ Ends(Returned(s))
    /\ UNCHANGED <<vectors, inquiry, discipline, thisdict, dict1, dict2, i,
                   word_avg_dist, word_avg_dists, dicts_avg_dist, plotVars>>

\* -------------------------------------------------------- dict_distinct
\* mutant: the per-word total is not averaged
DistinctWordAvgNoDiv(a, len) == ArraySum(a)

\* line 254: the mean distance of word to the words of dict2
DistinctWordAvg(a, len) == Div(ArraySum(a), len)

\* mutant: the score is turned into a similarity, as dict_cohere does
DistinctScoreAsSimilarity(sum, len) ==
    LET q == Div(sum, len)
    IN  IF q.k = "ZeroDivisionError" THEN q ELSE OneMinus(q)

\* line 256: the score from the accumulated per-word means
DistinctScore(sum, len) == Div(sum, len)

\* the call dict_distinct(<r1>, <r2>, model) and the initialisation of the locals
CallDictDistinct(r1, r2) ==
    /\ pc = "idle"
    /\ dict1' = r1
    /\ dict2' = r2
    /\ thisdict' = "none"
    /\ i' = 1
    /\ word_avg_dist' = PyInt(0)
    /\ word_avg_dists' = PyInt(0)
    /\ dict_avg_sim' = PyInt(0)
    /\ dicts_avg_dist' = PyInt(0)
    /\ outcome' = NoOutcome
    /\ pc' = "distinct_for"
    /\ UNCHANGED <<vectors, inquiry, discipline, seen, plotVars>>

\* one pass of "for word in dict1"
DistinctLoop ==
    /\ pc = "distinct_for"
    /\ i <= Len(Obj(dict1))
    /\ LET term == Obj(dict1)[i]
           r == distances(vectors, term, Obj(dict2))
           avg == DistinctWordAvg(r.vals, Len(Obj(dict2)))
       IN  IF r.err # "none"
           THEN /\ Ends(Raised(r.err))
                /\ UNCHANGED <<i, word_avg_dist, word_avg_dists>>
           ELSE /\ word_avg_dist' = avg
                /\ word_avg_dists' = Add(word_avg_dists, avg)
                /\ i' = i + 1
                /\ UNCHANGED <<pc, outcome, seen>>
    /\ UNCHANGED <<vectors, inquiry, discipline, thisdict, dict1, dict2,
                   dict_avg_sim, dicts_avg_dist, plotVars>>

\* the statements after the loop
DistinctReturn ==
    /\ pc = "distinct_for"
    /\ i > Len(Obj(dict1))
    /\ LET s == DistinctScore(word_avg_dists, Len(Obj(dict1)))
       IN  IF s.k = "ZeroDivisionError"
           THEN /\ Ends(Raised("ZeroDivisionError"))
                /\ UNCHANGED dicts_avg_dist
           ELSE /\ dicts_avg_dist' = s
                /\ Ends(Returned(s))
    /\ UNCHANGED <<vectors, inquiry, discipline, thisdict, dict1, dict2, i,
                   word_avg_dist, word_avg_dists, dict_avg_sim, plotVars>>

\* ------------------------------------------------- display_closestwords
\* the model object a name of the notebook stands for; "model" is the global
ModelOf(ref) == IF ref = "model" THEN vectors ELSE other

\* x < y, for finite numbers
Less(x, y) == x.n * y.d < y.n * x.d

Min(a, b) == IF a < b THEN a ELSE b

\* wem.similar_by_word(w, topn), w in the vocabulary: the topn words most
\* similar to w, w itself left out, most similar first, each with its
\* similarity; the order among equally similar words is not determined
SimilarByWord(wem, w, topn) ==
    LET cands == DOMAIN wem \ {w}
        sim(u) == CosineSimilarity(wem[w], wem[u])
        len == Min(topn, Cardinality(cands))
    IN  {[k \in 1..len |-> <<r[k], sim(r[k])>>] : r \in
          {q \in [1..len -> cands] :
             /\ \A a, b \in 1..len : a < b =>
                   /\ q[a] # q[b]
                   /\ ~Less(sim(q[a]), sim(q[b]))
             /\ \A u \in cands : (\A a \in 1..len : q[a] # u) =>
                   \A a \in 1..len : ~Less(sim(q[a]), sim(u))}}

\* lines 372 and 374: the model whose vectors are appended to arr
RowSource == vectors

\* the call display_closestwords(<wm>, w, n), up to the start of the loop
CallDisplayClosestwords(wm, w, n) ==
    /\ pc = "idle"
    /\ wem_model' = wm
    /\ word' = w
    /\ word_labels' = <<w>>
    /\ i' = 1
    /\ IF w \notin DOMAIN ModelOf(wm)
       THEN /\ outcome' = Raised("KeyError")
            /\ pc' = "idle"
            /\ close_words' = <<>>
            /\ arr' = <<>>
       ELSE /\ close_words' \in SimilarByWord(ModelOf(wm), w, n)
            /\ IF w \notin DOMAIN RowSource
               THEN /\ outcome' = Raised("KeyError")
                    /\ pc' = "idle"
                    /\ arr' = <<>>
               ELSE /\ outcome' = NoOutcome
                    /\ pc' = "plot_for"
                    /\ arr' = <<RowSource[w]>>
    /\ UNCHANGED <<vectors, other, scorerVars>>

\* one pass of "for wrd_score in close_words"
PlotLoop ==
    /\ pc = "plot_for"
    /\ i <= Len(close_words)
    /\ LET wrd_score == close_words[i]
       IN  IF wrd_score[1] \notin DOMAIN RowSource
           THEN /\ outcome' = Raised("KeyError")
                /\ pc' = "idle"
                /\ UNCHANGED <<i, arr, word_labels>>
           ELSE /\ word_labels' = Append(word_labels, wrd_score[1])
                /\ arr' = Append(arr, RowSource[wrd_score[1]])
                /\ i' = i + 1
                /\ UNCHANGED <<pc, outcome>>
    /\ UNCHANGED <<vectors, other, wem_model, word, close_words, scorerVars>>

\* the projection and the scatter plot of the rows of arr under word_labels
PlotShow ==
    /\ pc = "plot_for"
    /\ i > Len(close_words)
    /\ outcome' = [status |-> "shown", value |-> PyInt(0)]
    /\ pc' = "idle"
    /\ UNCHANGED <<vectors, i, scorerVars, plotVars>>

InitPlot ==
    /\ vectors \in KeyedVectors
    /\ other \in KeyedVectors
    /\ inquiry = <<>>
    /\ discipline = <<>>
    /\ pc = "idle"
    /\ thisdict = "none"
    /\ dict1 = "none"
    /\ dict2 = "none"
    /\ i = 1
    /\ word_avg_dist = PyInt(0)
    /\ word_avg_dists = PyInt(0)
    /\ dict_avg_sim = PyInt(0)
    /\ dicts_avg_dist = PyInt(0)
    /\ outcome = NoOutcome
    /\ seen = NoCall
    /\ wem_model = "none"
    /\ word = "none"
    /\ close_words = <<>>
    /\ arr = <<>>
    /\ word_labels = <<>>

NextPlot ==
    \/ \E wm \in {"model", "other"}, w \in Terms, n \in 0..MaxPlot :
          CallDisplayClosestwords(wm, w, n)
    \/ PlotLoop
    \/ PlotShow

SpecPlot == InitPlot /\ [][NextPlot]_vars

Next ==
    \/ \E ref \in ListNames : CallDictCohere(ref)
    \/ CohereLoop
    \/ CohereReturn
    \/ \E r1 \in ListNames : CallDictDistinct(r1, CHOOSE r2 \in ListNames : r2 # r1)
    \/ DistinctLoop
    \/ DistinctReturn

Spec == Init /\ [][Next]_vars

\* ======================================================================
\* Properties of the scorers (specification Spec)
\* ======================================================================
\* the last call was dict_cohere / dict_distinct and it has ended
CohereEnded == pc = "idle" /\ thisdict # "none" /\ outcome.status # "none"
DistinctEnded == pc = "idle" /\ dict1 # "none" /\ outcome.status # "none"

AllKnown(list) == \A j \in 1..Len(list) : list[j] \in DOMAIN vectors
SomeUnknown(list) == \E j \in 1..Len(list) : list[j] \notin DOMAIN vectors
Range(list) == {list[j] : j \in 1..Len(list)}

\* distance(t, u) of the embedding space
Distance(t, u) == OneMinus(CosineSimilarity(vectors[t], vectors[u]))

\* SUM over the first k terms u of B of distance(t, u)
RECURSIVE RowTotal(_, _, _)
RowTotal(t, B, k) ==
    IF k = 0 THEN Fin(0, 1, TRUE)
    ELSE Add(RowTotal(t, B, k - 1), Distance(t, B[k]))

\* SUM over the first k terms t of A of SUM over all u of B of distance(t, u)
RECURSIVE PairTotal(_, _, _)
PairTotal(A, B, k) ==
    IF k = 0 THEN Fin(0, 1, TRUE)
    ELSE Add(PairTotal(A, B, k - 1), RowTotal(A[k], B, Len(B)))

\* x and y are the same finite number
SameNumber(x, y) == x.k = "fin" /\ y.k = "fin" /\ x.n * y.d = y.n * x.d

SameCallAsSeen ==
    \/ /\ CohereEnded
       /\ seen.fn = "dict_cohere"
       /\ seen.a1 = Obj(thisdict)
    \/ /\ DistinctEnded
       /\ seen.fn = "dict_distinct"
       /\ seen.a1 = Obj(dict1)
       /\ seen.a2 = Obj(dict2)

\* C2: a scorer call made again with the same list contents, directly or
\* after any other scorer calls, ends with the same outcome (the same score
\* or the same error) as the recorded earlier call.
C2_SameInputsSameOutcome == SameCallAsSeen => seen.outcome = outcome

\* C2 witness: a recorded dict_cohere call with a score below 1 was made
\* again after the record was taken.
C2_Witness ==
    /\ SameCallAsSeen
    /\ seen.old
    /\ seen.fn = "dict_cohere"
    /\ outcome.status = "returned"
    /\ outcome.value.n < outcome.value.d

\* C3: for a non-empty list T of n known terms dict_cohere returns
\* 1 - (SUM over t, u in T of distance(t, u)) / (n * n), the pair (t, t)
\* included and both divisors n.
C3_CohereFormula ==
    (CohereEnded /\ Obj(thisdict) # <<>> /\ AllKnown(Obj(thisdict))) =>
        LET T == Obj(thisdict)
            n == Len(T)
            total == PairTotal(T, T, n)
        IN  /\ outcome.status = "returned"
            /\ SameNumber(outcome.value,
                          Fin(total.d * n * n - total.n, total.d * n * n, TRUE))

\* C3 witness: dict_cohere has returned for two known terms at non-zero
\* distance.
C3_Witness ==
    /\ CohereEnded
    /\ outcome.status = "returned"
    /\ Len(Obj(thisdict)) = 2
    /\ AllKnown(Obj(thisdict))
    /\ Distance(Obj(thisdict)[1], Obj(thisdict)[2]).n > 0

\* C4: for non-empty lists A (n terms) and B (m terms) of known terms
\* dict_distinct(A, B) returns (SUM over a in A, b in B of distance(a, b)) /
\* (n * m): the average distance from A to B itself, not 1 minus it.
C4_DistinctFormula ==
    (/\ DistinctEnded
     /\ Obj(dict1) # <<>> /\ Obj(dict2) # <<>>
     /\ AllKnown(Obj(dict1)) /\ AllKnown(Obj(dict2))) =>
        LET A == Obj(dict1)
            B == Obj(dict2)
            total == PairTotal(A, B, Len(A))
        IN  /\ outcome.status = "returned"
            /\ SameNumber(outcome.value,
                          Fin(total.n, total.d * Len(A) * Len(B), TRUE))

\* C4 witness: dict_distinct has returned for lists of different lengths
\* with a score that is not 1/2.
C4_Witness ==
    /\ DistinctEnded
    /\ outcome.status = "returned"
    /\ Len(Obj(dict1)) = 2
    /\ Len(Obj(dict2)) = 1
    /\ outcome.value.k = "fin"
    /\ outcome.value.n * 2 # outcome.value.d

\* C5: for a non-empty list of known terms the score of dict_cohere is a
\* finite number in [0, 1].
C5_CohereInUnitInterval ==
    (CohereEnded /\ Obj(thisdict) # <<>> /\ AllKnown(Obj(thisdict))) =>
        /\ outcome.status = "returned"
        /\ outcome.value.k = "fin"
        /\ 0 <= outcome.value.n
        /\ outcome.value.n <= outcome.value.d

\* C5 witness: two terms with opposite vectors score exactly 0.
C5_Witness ==
    /\ CohereEnded
    /\ outcome.status = "returned"
    /\ Len(Obj(thisdict)) = 2
    /\ AllKnown(Obj(thisdict))
    /\ outcome.value.k = "fin"
    /\ outcome.value.n = 0

C7_EmptyListRaises ==
    /\ (CohereEnded /\ Obj(thisdict) = <<>>) => outcome.status # "returned"
    /\ (DistinctEnded /\ (Obj(dict1) = <<>> \/ Obj(dict2) = <<>>)) =>
          outcome.status # "returned"

\* C8: with non-empty lists, a term unknown to the model anywhere in
\* thisdict, dict1 or dict2 ends the call with the KeyError of the lookup and
\* no score.
C8_UnknownTermRaises ==
    /\ (CohereEnded /\ SomeUnknown(Obj(thisdict))) =>
          outcome.status = "KeyError"
    /\ (/\ DistinctEnded
        /\ Obj(dict1) # <<>> /\ Obj(dict2) # <<>>
        /\ (SomeUnknown(Obj(dict1)) \/ SomeUnknown(Obj(dict2)))) =>
          outcome.status = "KeyError"

\* C8 witness: dict_distinct raised KeyError although dict1 is known
\* throughout and only the last term of dict2 is unknown.
C8_Witness ==
    /\ DistinctEnded
    /\ outcome.status = "KeyError"
    /\ Obj(dict1) # <<>>
    /\ AllKnown(Obj(dict1))
    /\ Len(Obj(dict2)) >= 2
    /\ Obj(dict2)[1] \in DOMAIN vectors
    /\ Obj(dict2)[Len(Obj(dict2))] \notin DOMAIN vectors

\* C9: for two non-empty lists of known terms that share no term,
\* dict_distinct returns a finite score in [0, 2].
C9_DisjointScoreInRange ==
    (/\ DistinctEnded
     /\ Obj(dict1) # <<>> /\ Obj(dict2) # <<>>
     /\ AllKnown(Obj(dict1)) /\ AllKnown(Obj(dict2))
     /\ Range(Obj(dict1)) \cap Range(Obj(dict2)) = {}) =>
        /\ outcome.status = "returned"
        /\ outcome.value.k = "fin"
        /\ 0 <= outcome.value.n
        /\ outcome.value.n <= 2 * outcome.value.d

\* C9 witness: two disjoint lists of opposite terms score exactly 2.
C9_Witness ==
    /\ DistinctEnded
    /\ outcome.status = "returned"
    /\ Range(Obj(dict1)) \cap Range(Obj(dict2)) = {}
    /\ Len(Obj(dict2)) = 2
    /\ outcome.value.k = "fin"
    /\ outcome.value.n = 2 * outcome.value.d

\* C11: the distance of the model being symmetric, dict_distinct gives two
\* non-empty lists of known terms the same score in either argument order:
\* the call dict_distinct(B, A) ends with the score the recorded call
\* dict_distinct(A, B) returned, the pair total over len(A) * len(B).
C11_DistinctSymmetric ==
    (/\ DistinctEnded
     /\ seen.fn = "dict_distinct"
     /\ seen.a1 = Obj(dict2) /\ seen.a2 = Obj(dict1)
     /\ Obj(dict1) # <<>> /\ Obj(dict2) # <<>>
     /\ AllKnown(Obj(dict1)) /\ AllKnown(Obj(dict2))) =>
        LET total == PairTotal(Obj(dict1), Obj(dict2), Len(Obj(dict1)))
        IN  /\ outcome.status = "returned"
            /\ seen.outcome.status = "returned"
            /\ SameNumber(outcome.value, seen.outcome.value)
            /\ SameNumber(outcome.value,
                  Fin(total.n, total.d * Len(Obj(dict1)) * Len(Obj(dict2)), TRUE))

\* C11 witness: dict_distinct has returned a non-zero score for lists of
\* different lengths after the recorded call with the lists swapped.
C11_Witness ==
    /\ DistinctEnded
    /\ outcome.status = "returned"
    /\ seen.fn = "dict_distinct"
    /\ seen.old
    /\ seen.a1 = Obj(dict2) /\ seen.a2 = Obj(dict1)
    /\ Len(Obj(dict1)) = 1
    /\ Len(Obj(dict2)) = 2
    /\ outcome.value.k = "fin"
    /\ outcome.value.n > 0

\* the lists S and T hold the same terms the same number of times
IsReordering(S, T) ==
    /\ Len(S) = Len(T)
    /\ \A x \in Terms :
          Cardinality({j \in 1..Len(S) : S[j] = x}) =
          Cardinality({j \in 1..Len(T) : T[j] = x})

C10_RowsComeFromWemModel ==
    (pc = "idle" /\ outcome.status = "shown") =>
        /\ Len(arr) = Len(word_labels)
        /\ word_labels[1] = word
        /\ \A k \in 1..Len(arr) :
              /\ word_labels[k] \in DOMAIN ModelOf(wem_model)
              /\ arr[k] = ModelOf(wem_model)[word_labels[k]]
====
